---- MODULE Spec2Model ----
(***************************************************************************)
(* codekeeper.models.person.Person: a Django model with two nullable name  *)
(* fields, an auto_now_add timestamp, an auto_now timestamp and two        *)
(* formatted views.  The table of Person rows, the instances callers hold   *)
(* in memory, the clock read by the timestamp fields and the operations    *)
(* the model class inherits from models.Model (create, get, attribute      *)
(* assignment, save, QuerySet.update, delete) are the state machine; a     *)
(* save is the steps Model.save() takes, one per clock reading and one per *)
(* statement sent to the database, and the callers' steps interleave.      *)
(* __str__ and full_name are operators over one instance.                  *)
(***************************************************************************)
EXTENDS Integers, Sequences, FiniteSets, TLC

\* ---------------------------------------------------------------- bounds
\* Rows ever inserted (primary keys 1..MaxRecords).
MaxRecords == 2
\* Last value of the clock.
MaxClock == 1

\* ------------------------------------------------------------ field values
\* CharField(max_length=256, ...)
max_length == 256

\* A nullable CharField holds None or a str.
None == <<>>
Text(s) == <<s>>

\* The text of n copies of c.
RECURSIVE Rep(_, _)
Rep(c, n) ==
    IF n = 0 THEN ""
    ELSE IF n = 1 THEN c
    ELSE Rep(c, n \div 2) \o Rep(c, n - (n \div 2))

\* A name of exactly max_length characters, and one character more.
LongName == Rep("x", 256)
TooLongName == Rep("x", 257)

\* Inputs of the timestamp specification and of the name specification.
FewNames == {None, Text("Ada")}
AllNames == {None, Text(""), Text("Ada"), Text("Lovelace"),
             Text(LongName), Text(TooLongName)}

\* Inputs of the length specification: no name, and names of 0, 256 and 257
\* characters.
LengthNames == {None, Text(""), Text(LongName), Text(TooLongName)}

FieldNames == {"first_name", "last_name"}

\* Keyword arguments: any subset of the name fields, each with a value.
Kwargs(N) == UNION {[S -> N] : S \in SUBSET FieldNames}
\* Those that give no last name.
FirstOnly(N) == {kw \in Kwargs(N) : "last_name" \notin DOMAIN kw}

\* The columns of a row, and the callers that may hold an instance.
Columns == {"first_name", "last_name", "created", "updated"}
Holders == {"p", "q"}

VARIABLES
    rows,     \* the Person table: primary key -> row
    held,     \* the instance each caller holds in memory, or NoInst
    nextId,   \* the next primary key the table hands out
    deleted,  \* the primary keys whose row was ever deleted
    now,      \* the clock timezone.now() reads
    backend,  \* what the database backend does with a name over length
    call,     \* where each caller is in a create() or save(), the columns
              \* it saves and the instance create() is making
    overlapped, \* the callers in a save() since whose start the row was written
    last      \* the last call made and its outcome

vars == <<rows, held, nextId, deleted, now, backend, call, overlapped, last>>

\* ------------------------------------------------------------ str.format
\* str(v) as format applies it to an argument with an empty format spec.
PyStr(v) == IF v = None THEN "None" ELSE v[1]

\* A format string as its pieces: literal text and positional fields.
Lit(s) == <<"lit", s>>
Arg(i) == <<"arg", i>>

\* str.format(*args): IndexError when a field names a missing argument.
RECURSIVE format(_, _)
format(tpl, args) ==
    IF Len(tpl) = 0 THEN [ok |-> TRUE, text |-> ""]
    ELSE LET piece == Head(tpl)
             rest == format(Tail(tpl), args)
         IN  IF piece[1] = "lit"
             THEN [ok |-> rest.ok, text |-> piece[2] \o rest.text]
             ELSE IF piece[2] + 1 \in DOMAIN args
                  THEN [ok |-> rest.ok,
                        text |-> PyStr(args[piece[2] + 1]) \o rest.text]
                  ELSE [ok |-> FALSE, text |-> ""]

\* "{0}, {1}".format(self.last_name, self.first_name), first name first
Mut__str__(self) ==
    format(<<Arg(0), Lit(", "), Arg(1)>>, <<self.first_name, self.last_name>>)

\* "{0}, {1}".format(self.last_name, self.first_name)
__str__(self) ==
    format(<<Arg(0), Lit(", "), Arg(1)>>, <<self.last_name, self.first_name>>)

\* "{0} {1}".format(self.first_name, self.last_name), None rendered empty
Mut_full_name(self) ==
    format(<<Arg(0), Lit(" "), Arg(1)>>,
           <<IF self.first_name = None THEN Text("") ELSE self.first_name,
             IF self.last_name = None THEN Text("") ELSE self.last_name>>)

\* "{0} {1}".format(self.first_name, self.last_name)
full_name(self) ==
    format(<<Arg(0), Lit(" "), Arg(1)>>, <<self.first_name, self.last_name>>)

\* ------------------------------------------------------------ the fields
\* null=True without a default: a name not passed to the constructor is None.
Mut_name_default == Text("")
name_default == None

Supplied(kw, f) == IF f \in DOMAIN kw THEN kw[f] ELSE name_default

\* created = DateTimeField(auto_now=True): stamped on every save.
Mut_created_pre_save(self, add, t) == t
\* created = DateTimeField(auto_now_add=True): stamped on the insert only.
created_pre_save(self, add, t) == IF add THEN t ELSE self.created

\* updated = DateTimeField(auto_now_add=True): stamped on the insert only.
Mut_updated_pre_save(self, add, t) == IF add THEN t ELSE self.updated
\* updated = DateTimeField(auto_now=True): stamped on every save.
updated_pre_save(self, add, t) == t

\* The fields declared in the other order: updated is stamped first.
Mut_pre_save(self, add, t0, t1) ==
    [self EXCEPT !.created = created_pre_save(self, add, t1),
                 !.updated = updated_pre_save(self, add, t0)]
\* save() runs each field's pre_save in declaration order; t0 and t1 are the
\* clock when created, then updated, are reached.
pre_save(self, add, t0, t1) ==
    [self EXCEPT !.created = created_pre_save(self, add, t0),
                 !.updated = updated_pre_save(self, add, t1)]

\* The column length one short.
Mut_FitsColumn(v) == v = None \/ Len(v[1]) <= max_length - 1
\* varchar(max_length), NULL allowed.
FitsColumn(v) == v = None \/ Len(v[1]) <= max_length

\* What a backend does with a name longer than the column: refuse the
\* statement (PostgreSQL, Oracle, MySQL in strict mode), store it whole
\* (SQLite, which ignores the length of varchar), or store the first
\* max_length characters (MySQL outside strict mode).  No file of the
\* repository fixes the backend.
Backends == {"strict", "lax", "truncate"}

\* save() runs no validators: a row is refused only by a backend that
\* enforces the column length.
DbAccepts(self) ==
    backend = "strict" =>
        FitsColumn(self.first_name) /\ FitsColumn(self.last_name)

\* The value the backend keeps for name v of a statement it accepts.
Stored(v) ==
    IF backend = "truncate" /\ ~FitsColumn(v)
    THEN Text(SubSeq(v[1], 1, max_length))
    ELSE v

\* The row the backend keeps for row self of a statement it accepts.
DbStores(self) ==
    [self EXCEPT !.first_name = Stored(@), !.last_name = Stored(@)]

\* A call that returned, and a call that raised err.
Call(op, h, id, ok, text) ==
    [op |-> op, h |-> h, id |-> id, ok |-> ok, text |-> text, err |-> ""]
Raised(op, h, id, err) ==
    [op |-> op, h |-> h, id |-> id, ok |-> FALSE, text |-> "", err |-> err]

\* A caller outside save(), and one inside it at step at, saving columns uf.
Idle == [at |-> "idle", uf |-> {}, obj |-> <<>>]
Saving(at, uf) == [at |-> at, uf |-> uf, obj |-> <<>>]
\* A caller inside create(), the instance obj made and stamped, its INSERT
\* not yet answered.
Creating(obj) ==
    [at |-> "create",
     uf |-> {"first_name", "last_name", "created", "updated"},
     obj |-> obj]

\* No instance held.
NoInst == <<>>

\* The instance of row r under key id, and the row of instance self.
Instance(id, r) ==
    [id |-> id, first_name |-> r.first_name, last_name |-> r.last_name,
     created |-> r.created, updated |-> r.updated]
Row(self) == [c \in Columns |-> self[c]]

\* ------------------------------------------------------------ operations
Init ==
    /\ rows = <<>>
    /\ held = [h \in Holders |-> NoInst]
    /\ nextId = 1
    /\ deleted = {}
    /\ now = 0
    /\ backend \in Backends
    /\ overlapped = {}
    /\ call = [h \in Holders |-> Idle]
    /\ last = Call("init", "", 0, TRUE, "")

\* h: p = Person.objects.create(**kw), first step: the instance is
\* constructed and save(force_insert=True) runs pre_save as for an insert,
\* which reads the clock for created, then for updated (it may advance by d
\* in between) and assigns to the instance.  The INSERT is sent in a later
\* step.
BeginCreate(h, kw, d) ==
    /\ call[h] = Idle
    /\ nextId + Cardinality({g \in Holders : call[g].at = "create"})
           <= MaxRecords
    /\ now + d <= MaxClock
    /\ LET new == [first_name |-> Supplied(kw, "first_name"),
                   last_name |-> Supplied(kw, "last_name"),
                   created |-> 0, updated |-> 0]
       IN  call' = [call EXCEPT
                       ![h] = Creating(pre_save(new, TRUE, now, now + d))]
    /\ now' = now + d
    /\ UNCHANGED <<rows, held, nextId, deleted, backend, overlapped, last>>

\* Second step: the INSERT reaches the database, which hands out the key;
\* create() returns the instance, or raises and returns nothing.
DoCreate(h) ==
    /\ call[h].at = "create"
    /\ LET obj == call[h].obj
       IN  IF DbAccepts(obj)
           THEN /\ rows' = rows @@ (nextId :> DbStores(obj))
                /\ held' = [held EXCEPT ![h] = Instance(nextId, obj)]
                /\ nextId' = nextId + 1
                /\ last' = Call("create", h, nextId, TRUE, "")
           ELSE /\ UNCHANGED <<rows, held, nextId>>
                /\ last' = Raised("create", h, 0, "DataError")
    /\ call' = [call EXCEPT ![h] = Idle]
    /\ UNCHANGED <<deleted, now, backend, overlapped>>

\* h: p = Person.objects.get(pk=id)
Get(h, id) ==
    /\ call[h] = Idle
    /\ id \in DOMAIN rows
    /\ held' = [held EXCEPT ![h] = Instance(id, rows[id])]
    /\ last' = Call("get", h, id, TRUE, "")
    /\ UNCHANGED <<rows, nextId, deleted, now, backend, call, overlapped>>


\* h: p.first_name = v, or p.last_name = v (the record is mutated by replacing
\* a name; created, updated and the key are left to the fields).
SetAttr(h, f, v) ==
    /\ call[h] = Idle
    /\ held[h] # NoInst
    /\ held' = [held EXCEPT ![h][f] = v]
    /\ last' = Call("set", h, held[h].id, TRUE, "")
    /\ UNCHANGED <<rows, nextId, deleted, now, backend, call, overlapped>>

\* The name a save goes by: save() writes every column, save(update_fields=uf)
\* the columns uf names.
SaveOp(uf) == IF uf = Columns THEN "save" ELSE "save_fields"

\* The instance after pre_save of the columns uf names only.
PreSaveFields(self, uf) ==
    LET all == pre_save(self, FALSE, now, now)
    IN  [c \in DOMAIN self |-> IF c \in uf THEN all[c] ELSE self[c]]

\* h: p.save() (uf = Columns) or p.save(update_fields=uf), first step: the
\* pre_save of every column to be written reads the clock and assigns to the
\* instance.  The statement is sent in a later step.
BeginSave(h, uf) ==
    /\ call[h] = Idle
    /\ held[h] # NoInst
    /\ uf # {}
    /\ held' = [held EXCEPT ![h] = PreSaveFields(@, uf)]
    /\ call' = [call EXCEPT ![h] = Saving("update", uf)]
    /\ overlapped' = overlapped \ {h}
    /\ UNCHANGED <<rows, nextId, deleted, now, backend, last>>

\* Every column written whatever uf names.
Mut_Written(r, self, uf) == [c \in Columns |-> self[c]]
\* The callers other than h that are inside a save() of key id: a statement
\* of h that changes the row lands between their clock reading and their own
\* statement.
Others(h, id) ==
    {g \in Holders \ {h} :
        call[g].at \in {"update", "stamp", "insert"} /\ held[g].id = id}

\* The row a save of columns uf from instance self leaves in place of row r.
Written(r, self, uf) == [c \in Columns |-> IF c \in uf THEN self[c] ELSE r[c]]

\* Second step: UPDATE .. WHERE id = p.id reaches the database.  When no row
\* matched, save() goes on to insert and save(update_fields=uf) raises
\* DatabaseError.
DoUpdate(h) ==
    /\ call[h].at = "update"
    /\ LET id == held[h].id
           uf == call[h].uf
       IN  IF id \in DOMAIN rows
           THEN LET new == Written(rows[id], held[h], uf)
                IN  /\ call' = [call EXCEPT ![h] = Idle]
                    /\ IF DbAccepts(new)
                       THEN /\ rows' = [rows EXCEPT ![id] = DbStores(new)]
                            /\ overlapped' =
                                   (overlapped \cup Others(h, id)) \ {h}
                            /\ last' = Call(SaveOp(uf), h, id, TRUE, "")
                       ELSE /\ UNCHANGED rows
                            /\ overlapped' = overlapped \ {h}
                            /\ last' = Raised(SaveOp(uf), h, id, "DataError")
           ELSE /\ UNCHANGED rows
                /\ IF uf = Columns
                   THEN /\ call' = [call EXCEPT ![h] = Saving("stamp", uf)]
                        /\ UNCHANGED <<overlapped, last>>
                   ELSE /\ call' = [call EXCEPT ![h] = Idle]
                        /\ overlapped' = overlapped \ {h}
                        /\ last' = Raised(SaveOp(uf), h, id, "DatabaseError")
    /\ UNCHANGED <<held, nextId, deleted, now, backend>>

\* Third step of a save() whose UPDATE matched no row: pre_save as for an
\* insert reads the clock again (it may advance by d between the two
\* timestamp fields) and assigns to the instance.
StampInsert(h, d) ==
    /\ call[h].at = "stamp"
    /\ now + d <= MaxClock
    /\ held' = [held EXCEPT ![h] = pre_save(@, TRUE, now, now + d)]
    /\ call' = [call EXCEPT ![h] = Saving("insert", call[h].uf)]
    /\ now' = now + d
    /\ UNCHANGED <<rows, nextId, deleted, backend, overlapped, last>>

\* Fourth step: INSERT reaches the database; IntegrityError when a row has
\* taken the key since the UPDATE.
DoInsert(h) ==
    /\ call[h].at = "insert"
    /\ LET id == held[h].id
       IN  IF id \in DOMAIN rows
           THEN /\ UNCHANGED rows
                /\ overlapped' = overlapped \ {h}
                /\ last' = Raised("save", h, id, "IntegrityError")
           ELSE IF DbAccepts(held[h])
                THEN /\ rows' = rows @@ (id :> DbStores(Row(held[h])))
                     /\ overlapped' = (overlapped \cup Others(h, id)) \ {h}
                     /\ last' = Call("save", h, id, TRUE, "")
                ELSE /\ UNCHANGED rows
                     /\ overlapped' = overlapped \ {h}
                     /\ last' = Raised("save", h, id, "DataError")
    /\ call' = [call EXCEPT ![h] = Idle]
    /\ UNCHANGED <<held, nextId, deleted, now, backend>>

\* The names of row self replaced by those kw gives.
SetNames(self, kw) ==
    [self EXCEPT !.first_name = IF "first_name" \in DOMAIN kw
                                THEN kw["first_name"] ELSE @,
                 !.last_name = IF "last_name" \in DOMAIN kw
                               THEN kw["last_name"] ELSE @]

\* Person.objects.filter(pk=id).update(**kw): one UPDATE statement of the
\* named columns; no field's pre_save runs.
QuerySetUpdate(id, kw) ==
    /\ id \in DOMAIN rows
    /\ DOMAIN kw # {}
    /\ LET obj == SetNames(rows[id], kw)
       IN  IF DbAccepts(obj)
           THEN /\ rows' = [rows EXCEPT ![id] = DbStores(obj)]
                /\ overlapped' = overlapped \cup Others("", id)
                /\ last' = Call("update", "", id, TRUE, "")
           ELSE /\ UNCHANGED <<rows, overlapped>>
                /\ last' = Raised("update", "", id, "DataError")
    /\ UNCHANGED <<held, nextId, deleted, now, backend, call>>

\* Deleting every row instead of the one.
Mut_Delete(id) ==
    /\ id \in DOMAIN rows
    /\ rows' = <<>>
    /\ deleted' = deleted \cup {id}
    /\ overlapped' = overlapped \cup Others("", id)
    /\ last' = Call("delete", "", id, TRUE, "")
    /\ UNCHANGED <<held, nextId, now, backend, call>>

\* Person.objects.filter(pk=id).delete(): Person has no relations to cascade
\* to, so one DELETE statement; instances held elsewhere stay as they are.
Delete(id) ==
    /\ id \in DOMAIN rows
    /\ rows' = [j \in DOMAIN rows \ {id} |-> rows[j]]
    /\ deleted' = deleted \cup {id}
    /\ overlapped' = overlapped \cup Others("", id)
    /\ last' = Call("delete", "", id, TRUE, "")
    /\ UNCHANGED <<held, nextId, now, backend, call>>

\* A read that also stamps the instance and writes it.
Mut_ReadStr(h) ==
    /\ call[h] = Idle
    /\ held[h] # NoInst
    /\ held[h].id \in DOMAIN rows
    /\ LET r == __str__(held[h])
       IN  last' = Call("__str__", h, held[h].id, r.ok, r.text)
    /\ held' = [held EXCEPT ![h] = pre_save(@, FALSE, now, now)]
    /\ rows' = [rows EXCEPT ![held[h].id] = Row(held'[h])]
    /\ UNCHANGED <<nextId, deleted, now, backend, call, overlapped>>

\* h: str(p)
ReadStr(h) ==
    /\ call[h] = Idle
    /\ held[h] # NoInst
    /\ LET r == __str__(held[h])
       IN  last' = Call("__str__", h, held[h].id, r.ok, r.text)
    /\ UNCHANGED <<rows, held, nextId, deleted, now, backend, call, overlapped>>

\* h: p.full_name
ReadFullName(h) ==
    /\ call[h] = Idle
    /\ held[h] # NoInst
    /\ LET r == full_name(held[h])
       IN  last' = Call("full_name", h, held[h].id, r.ok, r.text)
    /\ UNCHANGED <<rows, held, nextId, deleted, now, backend, call, overlapped>>

\* Time passes.
Tick ==
    /\ now < MaxClock
    /\ now' = now + 1
    /\ UNCHANGED <<rows, held, nextId, deleted, backend, call, overlapped, last>>

Ids == 1..MaxRecords

\* The update_fields lists tried: a name alone, a name with updated, and
\* created alone.
UpdateFields == {{"first_name"}, {"first_name", "updated"}, {"created"}}

\* The timestamp specification: one key, two callers whose steps interleave,
\* the first name alone given and replaced, a backend that enforces the length
\* (every name here fits), a clock that advances.
Next ==
    \/ \E h \in Holders, kw \in FirstOnly(FewNames), d \in {0, 1} :
          /\ nextId = 1 /\ \A g \in Holders : call[g].at # "create"
          /\ BeginCreate(h, kw, d)
    \/ \E h \in Holders : DoCreate(h)
    \/ \E h \in Holders, id \in Ids : Get(h, id)
    \/ \E h \in Holders, v \in FewNames : SetAttr(h, "first_name", v)
    \/ \E h \in Holders, uf \in {Columns} \cup UpdateFields : BeginSave(h, uf)
    \/ \E h \in Holders : DoUpdate(h)
    \/ \E h \in Holders, d \in {0, 1} : StampInsert(h, d)
    \/ \E h \in Holders : DoInsert(h)
    \/ \E id \in Ids, kw \in FirstOnly(FewNames) : QuerySetUpdate(id, kw)
    \/ \E id \in Ids : Delete(id)
    \/ Tick

InitEnforced == Init /\ backend = "strict"

Spec == InitEnforced /\ [][Next]_vars

\* The name specification: one key, one caller, every kind of name, every
\* kind of backend, a clock that advances during the create alone (between
\* its two readings, and between them and the INSERT).
NextNames ==
    \/ \E kw \in Kwargs(AllNames), d \in {0, 1} :
          nextId = 1 /\ BeginCreate("p", kw, d)
    \/ call["p"].at = "create" /\ Tick
    \/ DoCreate("p")
    \/ \E id \in Ids : Get("p", id)
    \/ \E f \in FieldNames, v \in AllNames : SetAttr("p", f, v)
    \/ BeginSave("p", Columns)
    \/ DoUpdate("p")
    \/ StampInsert("p", 0)
    \/ DoInsert("p")
    \/ \E id \in Ids : Delete(id)
    \/ ReadStr("p")
    \/ ReadFullName("p")

SpecNames == Init /\ [][NextNames]_vars

\* The length specification: one key, one caller, names at the ends of the
\* length range and one past it, every kind of backend, every statement that
\* writes a name, the clock standing still.
NextLength ==
    \/ \E kw \in Kwargs(LengthNames) : nextId = 1 /\ BeginCreate("p", kw, 0)
    \/ DoCreate("p")
    \/ \E id \in Ids : Get("p", id)
    \/ \E f \in FieldNames, v \in LengthNames : SetAttr("p", f, v)
    \/ \E uf \in {Columns, {"first_name"}} : BeginSave("p", uf)
    \/ DoUpdate("p")
    \/ StampInsert("p", 0)
    \/ DoInsert("p")
    \/ \E id \in Ids, kw \in Kwargs(LengthNames) : QuerySetUpdate(id, kw)
    \/ \E id \in Ids : Delete(id)

SpecLength == Init /\ [][NextLength]_vars

\* The table specification: every key, one caller, one name, the clock
\* standing still.
NextRows ==
    \/ \E kw \in Kwargs({Text("Ada")}) : BeginCreate("p", kw, 0)
    \/ DoCreate("p")
    \/ \E id \in Ids : Get("p", id)
    \/ \E f \in FieldNames : SetAttr("p", f, Text("Ada"))
    \/ BeginSave("p", Columns)
    \/ DoUpdate("p")
    \/ StampInsert("p", 0)
    \/ DoInsert("p")
    \/ \E id \in Ids : Delete(id)

SpecRows == Init /\ [][NextRows]_vars

\* ------------------------------------------------------------ properties
\* The text an absent or present name is expected to show as.
Shown(v) == IF v = None THEN "None" ELSE v[1]

\* The keys with a row before and after a step.
Kept == DOMAIN rows \cap DOMAIN rows'

\* A step in which caller h begins a save of an instance of key id.
Begins(h, id) ==
    /\ call[h] = Idle /\ call'[h].at = "update"
    /\ held[h].id = id

\* A step in which the UPDATE or INSERT of caller h's save is accepted and
\* writes the row of key id.
Wrote(h, id) ==
    /\ call[h].at \in {"update", "insert"} /\ call'[h] = Idle
    /\ last'.ok
    /\ held[h].id = id

\* A step in which one of the names of row id is replaced by another value.
Renamed(id) ==
    \/ rows'[id].first_name # rows[id].first_name
    \/ rows'[id].last_name # rows[id].last_name

\* Caller h holds an instance of key id before and after a step.
Holds(h, id) ==
    /\ held[h] # NoInst /\ held[h].id = id
    /\ held'[h] # NoInst /\ held'[h].id = id

\* C1: the display label is last_name, then ", ", then first_name, an absent
\* name shown as the text None; (Ada, Lovelace) reads "Lovelace, Ada" and two
\* absent names read "None, None".
Thm_C1 ==
    last.op = "__str__" =>
        LET r == held[last.h]
        IN  /\ last.text = Shown(r.last_name) \o ", " \o Shown(r.first_name)
            /\ (r.first_name = Text("Ada") /\ r.last_name = Text("Lovelace"))
                   => last.text = "Lovelace, Ada"
            /\ (r.first_name = None /\ r.last_name = None)
                   => last.text = "None, None"

Wit_C1 ==
    /\ last.op = "__str__"
    /\ held[last.h].first_name = None
    /\ held[last.h].last_name = Text("Lovelace")
    /\ last.text = "Lovelace, None"

\* C2: full_name is first_name, one space, last_name, an absent name shown as
\* the text None; two absent names read "None None".
Thm_C2 ==
    last.op = "full_name" =>
        LET r == held[last.h]
        IN  /\ last.text = Shown(r.first_name) \o " " \o Shown(r.last_name)
            /\ (r.first_name = Text("Ada") /\ r.last_name = Text("Lovelace"))
                   => last.text = "Ada Lovelace"
            /\ (r.first_name = None /\ r.last_name = None)
                   => last.text = "None None"

Wit_C2 ==
    /\ last.op = "full_name"
    /\ held[last.h].first_name = None
    /\ held[last.h].last_name = None
    /\ last.text = "None None"

\* C3 as stated: no step changes created of a row that stays in the table,
\* nor created of an instance a caller goes on holding.
Orig_C3 ==
    [][/\ \A id \in Kept : rows'[id].created = rows[id].created
       /\ \A h \in Holders, id \in Ids :
             Holds(h, id) => held'[h].created = held[h].created]_vars

\* C3: as long as the row of a key was never deleted, no step changes created
\* of the row, nor created of an instance of it a caller goes on holding.
Thm_C3 ==
    [][/\ \A id \in Kept \ deleted' : rows'[id].created = rows[id].created
       /\ \A h \in Holders, id \in Ids \ deleted' :
             Holds(h, id) => held'[h].created = held[h].created]_vars

Wit_C3 ==
    /\ last.op = "save" /\ last.ok
    /\ last.id \notin deleted
    /\ rows[last.id].created < now
    /\ rows[last.id].updated = now

\* C4 as stated: created <= updated in every row of the table.
Orig_C4 == \A id \in DOMAIN rows : rows[id].created <= rows[id].updated

\* C4: created <= updated in every row whose key was never deleted.
Thm_C4 ==
    \A id \in DOMAIN rows \ deleted : rows[id].created <= rows[id].updated

Wit_C4 ==
    /\ last.op = "save" /\ last.ok
    /\ last.id \in DOMAIN rows \ deleted
    /\ rows[last.id].created < rows[last.id].updated
    /\ \E h \in Holders : call[h].at = "update"

\* C5 as stated: updated of a row never decreases, and an accepted save, of
\* every column or of some, leaves it equal only when the clock still shows
\* the time of the previous stamp.
Orig_C5 ==
    [][\A id \in Kept :
          /\ rows'[id].updated >= rows[id].updated
          /\ \A h \in Holders :
                (Wrote(h, id) /\ rows'[id].updated = rows[id].updated)
                    => rows[id].updated = now]_vars

\* C5: a save of every column, or of update_fields naming updated, reads the
\* clock when it begins; the reading is no earlier than updated of the row at
\* that moment (equal only when the clock still shows the time of that stamp),
\* stays in the instance until the UPDATE is answered, and is the value an
\* accepted UPDATE writes.  A save of update_fields not naming updated leaves
\* updated equal.  A save since whose start no other statement has changed
\* the row does not lower updated; updated is lowered only by the write of a
\* save that such a statement has overlapped.
Thm_C5 ==
    [][\A id \in Kept :
          /\ rows[id].updated <= now
          /\ \A h \in Holders :
                /\ (Begins(h, id) /\ "updated" \in call'[h].uf)
                       => /\ held'[h].updated = now
                          /\ held'[h].updated >= rows[id].updated
                /\ (call[h].at = "update" /\ call'[h].at = "update")
                       => held'[h] = held[h]
                /\ (Wrote(h, id) /\ "updated" \in call[h].uf)
                       => rows'[id].updated = held[h].updated
                /\ (Wrote(h, id) /\ "updated" \notin call[h].uf)
                       => rows'[id].updated = rows[id].updated
                /\ (Wrote(h, id) /\ h \notin overlapped)
                       => rows'[id].updated >= rows[id].updated
          /\ rows'[id].updated < rows[id].updated
                 => \E h \in Holders :
                       /\ Wrote(h, id) /\ "updated" \in call[h].uf
                       /\ h \in overlapped]_vars

Wit_C5 ==
    /\ last.op = "save" /\ last.ok
    /\ rows[last.id].updated < now
    /\ held[last.h].updated = rows[last.id].updated
    /\ \E g \in Holders \ {last.h} :
          /\ held[g] # NoInst /\ call[g] = Idle
          /\ held[g].id = last.id
          /\ held[g].updated = now

\* C6 as stated: every step that replaces a name of a row leaves updated at
\* the current time.
Orig_C6 ==
    [][\A id \in Kept : Renamed(id) => rows'[id].updated = now']_vars

\* C6: every accepted save of every column, or of update_fields naming
\* updated, leaves updated at the clock reading that save took when it began
\* (an insert, at the reading taken for the insert), whichever names it
\* replaces; a save of update_fields not naming updated, and QuerySet.update()
\* of the names, leave updated as it was.
Thm_C6 ==
    [][/\ \A id \in Kept :
             /\ \A h \in Holders :
                   Wrote(h, id) =>
                       rows'[id].updated = IF "updated" \in call[h].uf
                                           THEN held[h].updated
                                           ELSE rows[id].updated
             /\ (last'.op = "update" /\ last'.id = id)
                    => rows'[id].updated = rows[id].updated
       /\ \A id \in DOMAIN rows' \ DOMAIN rows, h \in Holders :
             Wrote(h, id) => rows'[id].updated = held[h].updated
       /\ \A h \in Holders :
             /\ (call[h] = Idle /\ call'[h].at = "update")
                    => held'[h].updated = IF "updated" \in call'[h].uf
                                          THEN now ELSE held[h].updated
             /\ (call[h].at = "stamp" /\ call'[h].at = "insert")
                    => held'[h].updated = now']_vars

Wit_C6 ==
    /\ last.op = "save_fields" /\ last.ok
    /\ rows[last.id].first_name = Text("Ada")
    /\ rows[last.id].updated < now
    /\ last.id \notin deleted

\* Every name kw gives is at most n characters long.
NamesWithin(kw, n) ==
    \A f \in DOMAIN kw \cap FieldNames : kw[f] = None \/ Len(kw[f][1]) <= n

Answered(h) ==
    /\ call[h].at \in {"update", "insert"} /\ call'[h] = Idle
    /\ (call[h].at = "update") <=> (held[h].id \in DOMAIN rows)

\* A step in which the INSERT of caller h's create() is answered, and the
\* names it gives.
Created(h) == call[h].at = "create" /\ call'[h] = Idle
NamesMade(h) == [f \in FieldNames |-> call[h].obj[f]]

\* The names caller h's save() writes.
NamesSaved(h) ==
    [f \in call[h].uf \cap FieldNames |-> held[h][f]]

\* Name s is what the table holds after a statement giving name v: v itself
\* when it is at most 256 characters long, else v or its first 256 characters
\* as the backend has it.
KeptAs(v, s) ==
    IF v = None \/ Len(v[1]) <= 256
    THEN s = v
    ELSE \/ backend = "lax" /\ s = v
         \/ backend = "truncate" /\ s = Text(SubSeq(v[1], 1, 256))

\* C8 as stated, of a statement giving names kw that leaves outcome out: it is
\* accepted exactly when every name given is at most 256 characters long.
StatedOutcome(kw, out) == out.ok <=> NamesWithin(kw, 256)

LengthOutcome(kw, id, out) ==
    /\ NamesWithin(kw, 256) => out.ok
    /\ ~NamesWithin(kw, 256) => (out.ok <=> backend # "strict")
    /\ out.ok => \A f \in DOMAIN kw : KeptAs(kw[f], rows'[id][f])
    /\ ~out.ok => out.err = "DataError" /\ rows' = rows

Thm_C9 ==
    [][(last'.op = "delete" /\ rows' # rows) =>
          /\ last'.id \in DOMAIN rows
          /\ DOMAIN rows' = DOMAIN rows \ {last'.id}
          /\ \A j \in DOMAIN rows' : rows'[j] = rows[j]]_vars

Wit_C9 ==
    /\ last.op = "delete"
    /\ DOMAIN rows # {}
    /\ last.id \notin DOMAIN rows

\* C10: reading the display label or the full name raises nothing and leaves
\* the table and the instances held as they were.
Thm_C10 ==
    [][(last'.op \in {"__str__", "full_name"} /\ last' # last) =>
          /\ last'.ok
          /\ rows' = rows
          /\ held' = held
          /\ nextId' = nextId
          /\ call' = call]_vars

Wit_C10 ==
    /\ last.op \in {"__str__", "full_name"} /\ last.ok
    /\ held[last.h].first_name = None
    /\ held[last.h].last_name = Text(TooLongName)
    /\ last.id \notin DOMAIN rows

====
